---- MODULE Spec2Model ----
(***************************************************************************)
(* The "Hacker Stories" tutorial snapshots as state machines.              *)
(*                                                                         *)
(* Three snapshots hold a stories state:                                   *)
(*   "latest"   src/src/App.js 293-632: useReducer over                    *)
(*              {data, isLoading, isError}, axios GET, submit button       *)
(*   "reducer"  src/src/App.js 1-292: useReducer over a plain array        *)
(*              (SET_STORIES / REMOVE_STORY)                               *)
(*   "useState" src/unnamed/part_001: useState over a plain array          *)
(* These two and "storage" (src/unnamed/part_000: a constant list and the  *)
(* useStorageState hook) filter the list by the search term on the client. *)
(* The variable snapshot says which program a behaviour is a run of.       *)
(*                                                                         *)
(* Records are written with their fields in one fixed order throughout.    *)
(*                                                                         *)
(* src/src/index.js mounts App once with ReactDOM.render: every effect runs *)
(* once per render that changed its dependencies.                          *)
(*                                                                         *)
(* React's scheduling as modelled: a handler's state updates are committed *)
(* in one render; the passive effects of that render whose dependencies    *)
(* changed are then pending and are flushed, in hook order, before React   *)
(* processes any other update (event, promise continuation).               *)
(***************************************************************************)
EXTENDS Integers, Sequences, FiniteSets, TLC

VARIABLES
    snapshot,    \* which snapshot of the program is running
    storage,     \* localStorage: key -> <<>> (no item) or <<string>>
    searchTerm,  \* useStorageState("search", "React") value
    url,         \* useState(`${API_ENDPOINT}${searchTerm}`)
    stories,     \* latest: useReducer state {data, isLoading, isError}
    list,        \* "reducer" / "useState" snapshots: the stories array state
    pending,     \* passive effects scheduled by the last render, not yet run
    requests,    \* every axios.get issued, in order: url, outcome, event log
    response,    \* history: the most recent response a GET resolved with
    urlChanges,  \* history: number of renders in which url changed
    last,        \* history: the last action handed to a reducer / setter
    prev,        \* history (SpecReducers): stories the reducer was applied to
    prevList,    \* history (SpecReducers): list the reducer / setter was applied to
    thrown,      \* the last reducer call threw instead of returning
    removed,     \* history: some REMOVE_STORY has been applied (latest)
    dismissed,   \* history: objectIDs dismissed since url last changed
    resubmitted, \* history: some Submit click left url as it was
    searchedStories  \* earlier snapshots: the filtered list the render shows

vars == << snapshot, storage, searchTerm, url, stories, list, pending, requests,
           response, urlChanges, last, prev, prevList, thrown, removed,
           dismissed, resubmitted, searchedStories >>

-----------------------------------------------------------------------------
(* Bounds of the model and the input sets drawn from them.                 *)

\* longest hits list a response carries
MaxHits == 2
\* most GET requests issued in one behaviour
MaxGets == 2
\* longest stories list a reducer is applied to in SpecReducers
MaxData == 3
\* longest stories list the client-side filter is applied to in SpecFilter
MaxList == 2
\* longest search term typed letter by letter in SpecFilter
MaxTermLen == 2
\* longest hits list a response carries in SpecFair
MaxHitsFair == 1

API_ENDPOINT == "https://hn.algolia.com/api/v1/search?query='"

initialStories ==
    << [url |-> "https://reactjs.org/", title |-> "React",
        author |-> "Jordan Walke", num_comments |-> 3, points |-> 4,
        objectID |-> 0],
       [url |-> "https://redux.js.org/", title |-> "Redux",
        author |-> "Dan Abramov, Andrew Clark", num_comments |-> 2,
        points |-> 5, objectID |-> 1] >>

\* The stories a response may carry: the two seed stories and a third one that
\* shares objectID 0 with the first (the reducer does not assume unique ids).
StoryUniverse ==
    { initialStories[1], initialStories[2],
      [url |-> "https://relay.dev/", title |-> "Relay", author |-> "Joe Savona",
       num_comments |-> 1, points |-> 2, objectID |-> 0] }

\* Every list of at most n stories (repetitions allowed).
Lists(n) == UNION { [1..k -> StoryUniverse] : k \in 0..n }

\* The hits lists a response may carry.
Payloads == Lists(MaxHits)

\* What the user can have in the input field.
Terms == {"", "React", "Redux"}

\* localStorage keys; the program uses "search".
Keys == {"search", "theme"}

\* An action without payload ({type: ...}) reads payload as undefined.
NoPayload == <<>>

\* No action dispatched yet.
NoAction == [type |-> "none", payload |-> NoPayload]

\* Every action type of either reducer, and two that neither knows.
ActionTypes ==
    { "STORIES_FETCH_INIT", "STORIES_FETCH_SUCCESS", "STORIES_FETCH_FAILURE",
      "REMOVE_STORY", "SET_STORIES", "STORIES_FETCH", "" }

StoriesStates ==
    [data : Lists(MaxData), isLoading : BOOLEAN, isError : BOOLEAN]

-----------------------------------------------------------------------------
(* A function either returns a value or throws.                            *)

Returned(state) == [threw |-> FALSE, value |-> state]
Thrown == [threw |-> TRUE]

-----------------------------------------------------------------------------
(* storiesReducer of the latest snapshot, one operator per case.           *)

\* faulty variant: the error flag of an earlier failure is not reset
STORIES_FETCH_INIT_KeepsError(state, action) ==
    [state EXCEPT !.isLoading = TRUE]

STORIES_FETCH_INIT(state, action) ==
    [state EXCEPT !.isLoading = TRUE, !.isError = FALSE]

\* faulty variant: the error flag of an earlier failure is not reset
STORIES_FETCH_SUCCESS_KeepsError(state, action) ==
    [state EXCEPT !.isLoading = FALSE, !.data = action.payload]

\* faulty variant: the payload is appended to the stories already held
STORIES_FETCH_SUCCESS_Merges(state, action) ==
    [state EXCEPT !.isLoading = FALSE, !.isError = FALSE,
                  !.data = state.data \o action.payload]

STORIES_FETCH_SUCCESS(state, action) ==
    [state EXCEPT !.isLoading = FALSE, !.isError = FALSE,
                  !.data = action.payload]

\* faulty variant: a failure empties the list
STORIES_FETCH_FAILURE_DropsData(state, action) ==
    [state EXCEPT !.isLoading = FALSE, !.isError = TRUE, !.data = <<>>]

\* faulty variant: a failure leaves the loading flag as it was
STORIES_FETCH_FAILURE_KeepsLoading(state, action) ==
    [state EXCEPT !.isError = TRUE]

STORIES_FETCH_FAILURE(state, action) ==
    [state EXCEPT !.isLoading = FALSE, !.isError = TRUE]

\* faulty variant: only the first matching entry is removed (findIndex + splice)
RECURSIVE DropFirst(_, _)
DropFirst(seq, id) ==
    IF seq = <<>> THEN <<>>
    ELSE IF Head(seq).objectID = id THEN Tail(seq)
    ELSE <<Head(seq)>> \o DropFirst(Tail(seq), id)

REMOVE_STORY_FirstOnly(state, action) ==
    [state EXCEPT !.data = DropFirst(state.data, action.payload.objectID)]

\* faulty variant: the filter predicate is inverted (=== for !==)
REMOVE_STORY_Inverted(state, action) ==
    [state EXCEPT !.data =
        SelectSeq(state.data,
                  LAMBDA story : action.payload.objectID = story.objectID)]

REMOVE_STORY(state, action) ==
    [state EXCEPT !.data =
        SelectSeq(state.data,
                  LAMBDA story : action.payload.objectID # story.objectID)]

\* faulty variant: the default case returns the state, as reducers commonly do
storiesReducerDefault_ReturnsState(state, action) == Returned(state)

storiesReducerDefault(state, action) == Thrown

storiesReducer(state, action) ==
    CASE action.type = "STORIES_FETCH_INIT" ->
            Returned(STORIES_FETCH_INIT(state, action))
      [] action.type = "STORIES_FETCH_SUCCESS" ->
            Returned(STORIES_FETCH_SUCCESS(state, action))
      [] action.type = "STORIES_FETCH_FAILURE" ->
            Returned(STORIES_FETCH_FAILURE(state, action))
      [] action.type = "REMOVE_STORY" ->
            Returned(REMOVE_STORY(state, action))
      [] OTHER -> storiesReducerDefault(state, action)

-----------------------------------------------------------------------------
(* storiesReducer of the "reducer" snapshot: the state is the array.       *)

SET_STORIES(state, action) == action.payload

REMOVE_STORY_array(state, action) ==
    SelectSeq(state, LAMBDA story : action.payload.objectID # story.objectID)

storiesReducerArrayDefault(state, action) == Thrown

storiesReducerArray(state, action) ==
    CASE action.type = "SET_STORIES" ->
            Returned(SET_STORIES(state, action))
      [] action.type = "REMOVE_STORY" ->
            Returned(REMOVE_STORY_array(state, action))
      [] OTHER -> storiesReducerArrayDefault(state, action)

-----------------------------------------------------------------------------
(* useReducer's dispatch: the reducer's return value becomes the state of  *)
(* the next render; a throw leaves no new state.                           *)

dispatchStories(action) ==
    LET result == storiesReducer(stories, action) IN
    /\ thrown' = result.threw
    /\ stories' = IF result.threw THEN stories ELSE result.value
    /\ last' = action
    /\ removed' = (removed \/ (~result.threw /\ action.type = "REMOVE_STORY"))

dispatchStoriesArray(action) ==
    LET result == storiesReducerArray(list, action) IN
    /\ thrown' = result.threw
    /\ list' = IF result.threw THEN list ELSE result.value
    /\ last' = action

-----------------------------------------------------------------------------
(* useStorageState(key, initialState)                                      *)

\* faulty variant: getItem(key) ?? initialState, only a missing item falls back
useStorageStateInitial_Nullish(store, key, initialState) ==
    IF store[key] = <<>> THEN initialState ELSE store[key][1]

\* localStorage.getItem(key) || initialState: null and "" are both falsy
useStorageStateInitial(store, key, initialState) ==
    IF store[key] = <<>> \/ store[key][1] = ""
    THEN initialState
    ELSE store[key][1]

\* faulty variant: the effect writes under a key of its own
useStorageStateEffect_WrongKey(key, value) ==
    storage' = [storage EXCEPT !["theme"] = <<value>>]

\* React.useEffect(() => localStorage.setItem(key, value), [value, key])
useStorageStateEffect(key, value) ==
    storage' = [storage EXCEPT ![key] = <<value>>]

-----------------------------------------------------------------------------
(* The latest snapshot's App.                                              *)

\* No response received yet.
NoResponse == [data |-> [hits |-> <<>>], id |-> 0]

\* requests still awaited
InFlight == { i \in 1..Len(requests) : requests[i].outcome = "pending" }

GetsIssued == Len(requests)

\* The first render: every useState / useReducer initialiser has run and
\* both effects of App are scheduled.
AppMount(store) ==
    /\ snapshot = "latest"
    /\ storage = store
    /\ searchTerm = useStorageStateInitial(store, "search", "React")
    /\ url = API_ENDPOINT \o searchTerm
    /\ stories = [data |-> <<>>, isLoading |-> FALSE, isError |-> FALSE]
    /\ pending = {"storage", "fetch"}
    /\ requests = <<>>
    /\ response = NoResponse
    /\ urlChanges = 0
    /\ last = NoAction
    /\ prev = stories
    /\ list = <<>>
    /\ prevList = <<>>
    /\ thrown = FALSE
    /\ removed = FALSE
    /\ dismissed = {}
    /\ resubmitted = FALSE
    /\ searchedStories = <<>>

\* What localStorage may hold when the page loads.
Stores ==
    { [k \in Keys |-> IF k = "search" THEN item ELSE <<>>] :
        item \in {<<>>} \cup { <<t>> : t \in Terms } }

Init == \E store \in Stores : AppMount(store)

\* The app is alive and React has no effect left to flush.
Idle == snapshot = "latest" /\ ~thrown /\ pending = {}

\* The storage effect of useStorageState, first in hook order.
StorageEffect ==
    /\ snapshot = "latest" /\ ~thrown
    /\ "storage" \in pending
    /\ useStorageStateEffect("search", searchTerm)
    /\ pending' = pending \ {"storage"}
    /\ UNCHANGED << snapshot, searchTerm, url, stories, list, requests,
                    response, urlChanges, last, prev, prevList, thrown,
                    removed, dismissed, resubmitted, searchedStories >>

\* faulty variant: the request is sent without STORIES_FETCH_INIT being dispatched
handleFetchStories_NoInit ==
    /\ requests' = Append(requests,
                     [url |-> url, outcome |-> "pending", log |-> << "GET" >>])
    /\ UNCHANGED << stories, last, thrown, removed >>

\* handleFetchStories up to its await: dispatch, then axios.get(url)
handleFetchStories ==
    /\ dispatchStories([type |-> "STORIES_FETCH_INIT", payload |-> NoPayload])
    /\ requests' = Append(requests,
                     [url |-> url, outcome |-> "pending",
                      log |-> << "STORIES_FETCH_INIT", "GET" >>])

\* useEffect(() => handleFetchStories(), [handleFetchStories]), where
\* handleFetchStories = useCallback(..., [url])
FetchEffect ==
    /\ snapshot = "latest" /\ ~thrown
    /\ pending = {"fetch"}
    /\ handleFetchStories
    /\ pending' = {}
    /\ UNCHANGED << snapshot, storage, searchTerm, url, list, response,
                    urlChanges, prev, prevList, dismissed, resubmitted,
                    searchedStories >>

\* faulty variant: a response for a url that is no longer the query url is dropped
handleFetchStoriesResolved_IgnoresStale(i, result) ==
    IF requests[i].url = url
    THEN /\ dispatchStories([type |-> "STORIES_FETCH_SUCCESS",
                             payload |-> result.data.hits])
         /\ requests' = [requests EXCEPT ![i].outcome = "resolved",
                             ![i].log = Append(@, "STORIES_FETCH_SUCCESS")]
    ELSE /\ requests' = [requests EXCEPT ![i].outcome = "resolved"]
         /\ UNCHANGED << stories, last, thrown, removed >>

\* handleFetchStories after the await, the promise fulfilled with result
handleFetchStoriesResolved(i, result) ==
    /\ dispatchStories([type |-> "STORIES_FETCH_SUCCESS",
                        payload |-> result.data.hits])
    /\ requests' = [requests EXCEPT ![i].outcome = "resolved",
                                    ![i].log = Append(@, "STORIES_FETCH_SUCCESS")]

\* faulty variant: the catch block sends the request again
handleFetchStoriesRejected_Retries(i) ==
    /\ dispatchStories([type |-> "STORIES_FETCH_FAILURE", payload |-> NoPayload])
    /\ requests' = Append([requests EXCEPT ![i].outcome = "rejected",
                               ![i].log = Append(@, "STORIES_FETCH_FAILURE")],
                          [url |-> requests[i].url, outcome |-> "pending",
                           log |-> << "STORIES_FETCH_INIT", "GET" >>])

\* faulty variant: no catch block, a rejection dispatches nothing
handleFetchStoriesRejected_NoCatch(i) ==
    /\ requests' = [requests EXCEPT ![i].outcome = "rejected"]
    /\ UNCHANGED << stories, last, thrown, removed >>

\* handleFetchStories in its catch block, the promise rejected
handleFetchStoriesRejected(i) ==
    /\ dispatchStories([type |-> "STORIES_FETCH_FAILURE", payload |-> NoPayload])
    /\ requests' = [requests EXCEPT ![i].outcome = "rejected",
                                    ![i].log = Append(@, "STORIES_FETCH_FAILURE")]

\* The server answers request i with a hits list.
GetResolves(i, hits) ==
    /\ Idle
    /\ i \in InFlight
    /\ LET result == [data |-> [hits |-> hits]] IN
        /\ response' = [data |-> result.data, id |-> i]
        /\ handleFetchStoriesResolved(i, result)
    /\ UNCHANGED << snapshot, storage, searchTerm, url, list, pending,
                    urlChanges, prev, prevList, dismissed, resubmitted,
                    searchedStories >>

\* Request i fails (network error, non-2xx status).
GetRejects(i) ==
    /\ Idle
    /\ i \in InFlight
    /\ handleFetchStoriesRejected(i)
    /\ UNCHANGED << snapshot, storage, searchTerm, url, list, pending,
                    response, urlChanges, prev, prevList, dismissed,
                    resubmitted, searchedStories >>

\* faulty variant: search as you type, the keystroke also sets the query url
handleSearchInput_SetsUrl(value) ==
    /\ Idle
    /\ GetsIssued < MaxGets
    /\ searchTerm' = value
    /\ url' = API_ENDPOINT \o value
    /\ pending' = (IF value # searchTerm THEN {"storage"} ELSE {})
                      \cup (IF url' # url THEN {"fetch"} ELSE {})
    /\ urlChanges' = IF url' # url THEN urlChanges + 1 ELSE urlChanges
    /\ dismissed' = IF url' # url THEN {} ELSE dismissed
    /\ UNCHANGED << snapshot, storage, stories, list, requests, response, last,
                    prev, prevList, thrown, removed, resubmitted,
                    searchedStories >>

\* onChange of the input: setSearchTerm(e.target.value)
handleSearchInput(value) ==
    /\ Idle
    /\ searchTerm' = value
    /\ pending' = IF value # searchTerm THEN {"storage"} ELSE {}
    /\ UNCHANGED << snapshot, storage, url, stories, list, requests, response,
                    urlChanges, last, prev, prevList, thrown, removed,
                    dismissed, resubmitted, searchedStories >>

\* faulty variant: every click runs the fetch effect, a forced re-fetch
handleSearchSubmit_AlwaysFetches ==
    /\ Idle
    /\ searchTerm # ""
    /\ GetsIssued < MaxGets
    /\ url' = API_ENDPOINT \o searchTerm
    /\ pending' = {"fetch"}
    /\ urlChanges' = IF url' # url THEN urlChanges + 1 ELSE urlChanges
    /\ dismissed' = IF url' # url THEN {} ELSE dismissed
    /\ resubmitted' = (resubmitted \/ url' = url)
    /\ UNCHANGED << snapshot, storage, searchTerm, stories, list, requests,
                    response, last, prev, prevList, thrown, removed,
                    searchedStories >>

\* onClick of <button disabled={!searchTerm}>: setUrl(endpoint + searchTerm)
handleSearchSubmit ==
    /\ Idle
    /\ searchTerm # ""
    /\ GetsIssued < MaxGets
    /\ url' = API_ENDPOINT \o searchTerm
    /\ pending' = IF url' # url THEN {"fetch"} ELSE {}
    /\ urlChanges' = IF url' # url THEN urlChanges + 1 ELSE urlChanges
    /\ dismissed' = IF url' # url THEN {} ELSE dismissed
    /\ resubmitted' = (resubmitted \/ url' = url)
    /\ UNCHANGED << snapshot, storage, searchTerm, stories, list, requests,
                    response, last, prev, prevList, thrown, removed,
                    searchedStories >>

\* onClick of an Item's Dismiss button; the List is rendered when not loading
handleRemoveStory(item) ==
    /\ Idle
    /\ ~stories.isLoading
    /\ \E i \in DOMAIN stories.data : stories.data[i] = item
    /\ dispatchStories([type |-> "REMOVE_STORY", payload |-> item])
    /\ dismissed' = dismissed \cup {item.objectID}
    /\ UNCHANGED << snapshot, storage, searchTerm, url, list, pending,
                    requests, response, urlChanges, prev, prevList,
                    resubmitted, searchedStories >>

Next ==
    \/ StorageEffect
    \/ FetchEffect
    \/ \E i \in 1..MaxGets, hits \in Payloads : GetResolves(i, hits)
    \/ \E i \in 1..MaxGets : GetRejects(i)
    \/ \E value \in Terms : handleSearchInput(value)
    \/ handleSearchSubmit
    \/ \E item \in StoryUniverse : handleRemoveStory(item)

Spec == Init /\ [][Next]_vars

-----------------------------------------------------------------------------
(* The latest snapshot's App under the scheduling the platform gives it.   *)
(* React runs a scheduled effect: nothing else is handled before it, so    *)
(* weak fairness. A GET settles whatever the user does meanwhile; its      *)
(* continuation only waits for effects of other renders to be flushed, so  *)
(* strong fairness. Nothing obliges the user to type, submit or dismiss,   *)
(* and at most MaxGets fetches are started in all. Responses carry hits    *)
(* lists of at most MaxHitsFair stories.                                   *)

PayloadsFair == Lists(MaxHitsFair)

\* request i rejects or resolves with some hits list
Settle(i) ==
    \/ GetRejects(i)
    \/ \E hits \in PayloadsFair : GetResolves(i, hits)

NextFair ==
    \/ StorageEffect
    \/ FetchEffect
    \/ \E i \in 1..MaxGets : Settle(i)
    \/ \E value \in Terms : handleSearchInput(value)
    \/ handleSearchSubmit
    \/ \E item \in StoryUniverse : handleRemoveStory(item)

Fairness ==
    /\ WF_vars(StorageEffect)
    /\ WF_vars(FetchEffect)
    /\ \A i \in 1..MaxGets : SF_vars(Settle(i))

SpecFair == Init /\ [][NextFair]_vars /\ Fairness

-----------------------------------------------------------------------------
(* The page is loaded again: the JavaScript context with every component   *)
(* state and every request in flight is gone, localStorage persists, and   *)
(* index.js mounts App anew.                                               *)

Reload ==
    /\ snapshot = "latest"
    /\ pending = {}
    /\ searchTerm' = useStorageStateInitial(storage, "search", "React")
    /\ url' = API_ENDPOINT \o searchTerm'
    /\ stories' = [data |-> <<>>, isLoading |-> FALSE, isError |-> FALSE]
    /\ pending' = {"storage", "fetch"}
    /\ requests' = <<>>
    /\ response' = NoResponse
    /\ urlChanges' = 0
    /\ last' = NoAction
    /\ thrown' = FALSE
    /\ removed' = FALSE
    /\ dismissed' = {}
    /\ resubmitted' = FALSE
    /\ UNCHANGED << snapshot, storage, list, prev, prevList, searchedStories >>

NextReload == Next \/ Reload

SpecReload == Init /\ [][NextReload]_vars

-----------------------------------------------------------------------------
(* The reducers and the useState remove handler as functions: each is      *)
(* applied to any state and any action, whatever the app around it would   *)
(* dispatch.                                                               *)

InitialState == [data |-> <<>>, isLoading |-> FALSE, isError |-> FALSE]

InitReducers ==
    /\ snapshot \in {"latest", "reducer", "useState"}
    /\ stories \in (IF snapshot = "latest" THEN StoriesStates ELSE {InitialState})
    /\ list \in (CASE snapshot = "latest" -> {<<>>}
                   [] snapshot = "reducer" -> Lists(MaxData)
                   [] snapshot = "useState" -> {initialStories})
    /\ storage = [k \in Keys |-> <<>>]
    /\ searchTerm = "React"
    /\ url = API_ENDPOINT \o searchTerm
    /\ pending = {}
    /\ requests = <<>>
    /\ response = NoResponse
    /\ urlChanges = 0
    /\ last = NoAction
    /\ prev = stories
    /\ prevList = list
    /\ thrown = FALSE
    /\ removed = FALSE
    /\ dismissed = {}
    /\ resubmitted = FALSE
    /\ searchedStories = <<>>

\* storiesReducer (latest) applied to the current state
Reduce(action) ==
    /\ snapshot = "latest"
    /\ dispatchStories(action)
    /\ prev' = stories
    /\ UNCHANGED << snapshot, storage, searchTerm, url, list, pending,
                    requests, response, urlChanges, prevList, dismissed,
                    resubmitted, searchedStories >>

\* storiesReducer ("reducer" snapshot) applied to the current array
ReduceArray(action) ==
    /\ snapshot = "reducer"
    /\ dispatchStoriesArray(action)
    /\ prevList' = list
    /\ UNCHANGED << snapshot, storage, searchTerm, url, stories, pending,
                    requests, response, urlChanges, prev, removed, dismissed,
                    resubmitted, searchedStories >>

\* part_001: handleRemoveStory filters the array and calls setStories
handleRemoveStoryState(item) ==
    /\ snapshot = "useState"
    /\ \E i \in DOMAIN list : list[i] = item
    /\ LET newStories ==
            SelectSeq(list, LAMBDA story : item.objectID # story.objectID)
       IN list' = newStories
    /\ prevList' = list
    /\ last' = [type |-> "handleRemoveStory", payload |-> item]
    /\ UNCHANGED << snapshot, storage, searchTerm, url, stories, pending,
                    requests, response, urlChanges, prev, thrown, removed,
                    dismissed, resubmitted, searchedStories >>

NextReducers ==
    \/ \E type \in ActionTypes \ {"STORIES_FETCH_SUCCESS", "SET_STORIES",
                                  "REMOVE_STORY"} :
          \/ Reduce([type |-> type, payload |-> NoPayload])
          \/ ReduceArray([type |-> type, payload |-> NoPayload])
    \/ \E type \in {"STORIES_FETCH_SUCCESS", "SET_STORIES"},
          payload \in Payloads :
          \/ Reduce([type |-> type, payload |-> payload])
          \/ ReduceArray([type |-> type, payload |-> payload])
    \/ \E item \in StoryUniverse :
          \/ Reduce([type |-> "REMOVE_STORY", payload |-> item])
          \/ ReduceArray([type |-> "REMOVE_STORY", payload |-> item])
          \/ handleRemoveStoryState(item)

SpecReducers == InitReducers /\ [][NextReducers]_vars

-----------------------------------------------------------------------------
(* The latest reducer run from useReducer's initial state under any        *)
(* sequence of its four actions, in any order and with any payload.        *)

InitFromInitialState ==
    /\ InitReducers
    /\ snapshot = "latest"
    /\ stories = InitialState

NextFromInitialState ==
    \/ Reduce([type |-> "STORIES_FETCH_INIT", payload |-> NoPayload])
    \/ \E payload \in Payloads :
          Reduce([type |-> "STORIES_FETCH_SUCCESS", payload |-> payload])
    \/ Reduce([type |-> "STORIES_FETCH_FAILURE", payload |-> NoPayload])
    \/ \E item \in StoryUniverse :
          Reduce([type |-> "REMOVE_STORY", payload |-> item])

SpecFromInitialState == InitFromInitialState /\ [][NextFromInitialState]_vars

-----------------------------------------------------------------------------
(* The client-side filter of the snapshots before the remote search:       *)
(*   stories.filter(story =>                                               *)
(*     story.title.toLowerCase().includes(searchTerm.toLowerCase()))       *)
(* A JavaScript string is a string here; chars gives its characters, on    *)
(* which toLowerCase and includes work.                                    *)

\* The letters with an upper-case and a lower-case form of one character
\* each: << upper, lower >>. The German sharp s has no such pair: its
\* lower-case form is itself and its upper-case form is "SS".
UpperLower ==
    { << "A", "a" >>, << "B", "b" >>, << "C", "c" >>, << "D", "d" >>,
      << "E", "e" >>, << "F", "f" >>, << "G", "g" >>, << "H", "h" >>,
      << "I", "i" >>, << "J", "j" >>, << "K", "k" >>, << "L", "l" >>,
      << "M", "m" >>, << "N", "n" >>, << "O", "o" >>, << "P", "p" >>,
      << "Q", "q" >>, << "R", "r" >>, << "S", "s" >>, << "T", "t" >>,
      << "U", "u" >>, << "V", "v" >>, << "W", "w" >>, << "X", "x" >>,
      << "Y", "y" >>, << "Z", "z" >> }

\* String.prototype.toLowerCase on one character
toLowerCaseChar(c) ==
    IF \E pair \in UpperLower : pair[1] = c
    THEN (CHOOSE pair \in UpperLower : pair[1] = c)[2]
    ELSE c

\* String.prototype.toUpperCase on one character: a string of one or two
toUpperCaseChar(c) ==
    IF c = "ß" THEN << "S", "S" >>
    ELSE IF \E pair \in UpperLower : pair[2] = c
    THEN << (CHOOSE pair \in UpperLower : pair[2] = c)[1] >>
    ELSE << c >>

\* String.prototype.toLowerCase on the characters of a string
toLowerCase(str) == [i \in DOMAIN str |-> toLowerCaseChar(str[i])]

\* String.prototype.toUpperCase on the characters of a string
RECURSIVE toUpperCase(_)
toUpperCase(str) ==
    IF str = <<>> THEN <<>>
    ELSE toUpperCaseChar(Head(str)) \o toUpperCase(Tail(str))

\* the string made of the characters
RECURSIVE Join(_)
Join(characters) ==
    IF characters = <<>> THEN ""
    ELSE Head(characters) \o Join(Tail(characters))

\* Every way of writing a word in other letter-case: each character as it
\* is, lower-cased or upper-cased.
RECURSIVE Recasings(_)
Recasings(word) ==
    IF word = <<>> THEN { <<>> }
    ELSE { first \o rest :
             first \in { << Head(word) >>, << toLowerCaseChar(Head(word)) >>,
                         toUpperCaseChar(Head(word)) },
             rest \in Recasings(Tail(word)) }

\* The characters a short search term is typed from.
TermChars == { "E", "e", "s", "ß" }

\* The search terms of the filter: the terms of the latest snapshot and every
\* string of at most MaxTermLen of the characters above.
TermWords ==
    { <<>>, << "R", "e", "a", "c", "t" >>, << "R", "e", "d", "u", "x" >> }
        \cup UNION { [1..k -> TermChars] : k \in 0..MaxTermLen }

\* The titles of the stories the filter is applied to.
TitleWords ==
    { << "R", "e", "a", "c", "t" >>, << "R", "e", "d", "u", "x" >>,
      << "S", "t", "r", "a", "ß", "e" >> }

\* The characters of each string of the model, in any letter-case.
Spelling ==
    LET words == UNION { Recasings(word) : word \in TermWords \cup TitleWords }
    IN [str \in { Join(word) : word \in words } |->
            CHOOSE word \in words : Join(word) = str]

chars(str) == Spelling[str]

FilterTerms == { Join(word) : word \in TermWords }

\* The stories of the filter: the two seed stories and one whose title has a
\* sharp s.
FilterStories ==
    { initialStories[1], initialStories[2] } \cup
    { [url |-> "https://de.wikipedia.org/wiki/Stra%C3%9Fe", title |-> "Straße",
       author |-> "Wikipedia", num_comments |-> 0, points |-> 1,
       objectID |-> 2] }

FilterLists == UNION { [1..k -> FilterStories] : k \in 0..MaxList }

\* faulty variant: the term must stand at the start of the string (startsWith)
includes_AtStartOnly(str, searchString) ==
    /\ Len(searchString) <= Len(str)
    /\ SubSeq(str, 1, Len(searchString)) = searchString

\* String.prototype.includes: searchString occurs in str at some position
RECURSIVE includes(_, _)
includes(str, searchString) ==
    IF Len(searchString) > Len(str) THEN FALSE
    ELSE IF SubSeq(str, 1, Len(searchString)) = searchString THEN TRUE
    ELSE includes(Tail(str), searchString)

\* the callback handed to stories.filter
storyMatches(story, term) ==
    includes(toLowerCase(chars(story.title)), toLowerCase(chars(term)))

\* const searchedStories = stories.filter(...)
storiesFilter(storyList, term) ==
    SelectSeq(storyList, LAMBDA story : storyMatches(story, term))

FilterSnapshots == { "storage", "useState", "reducer" }

\* Some render of a filtering snapshot: any list it can hold (part_000 holds
\* the constant seed list), any term, the term stored by the storage effect.
InitFilter ==
    /\ snapshot \in FilterSnapshots
    /\ list \in (IF snapshot = "storage" THEN {initialStories} ELSE FilterLists)
    /\ searchTerm \in FilterTerms
    /\ searchedStories = storiesFilter(list, searchTerm)
    /\ storage = [k \in Keys |-> IF k = "search" THEN << searchTerm >> ELSE <<>>]
    /\ url = API_ENDPOINT
    /\ stories = InitialState
    /\ pending = {}
    /\ requests = <<>>
    /\ response = NoResponse
    /\ urlChanges = 0
    /\ last = NoAction
    /\ prev = stories
    /\ prevList = list
    /\ thrown = FALSE
    /\ removed = FALSE
    /\ dismissed = {}
    /\ resubmitted = FALSE

\* onChange of the input: setSearchTerm(e.target.value), the render that
\* filters the list anew, and the storage effect of that render
handleSearch(value) ==
    /\ snapshot \in FilterSnapshots
    /\ searchTerm' = value
    /\ searchedStories' = storiesFilter(list, value)
    /\ useStorageStateEffect("search", value)
    /\ last' = [type |-> "handleSearch", payload |-> value]
    /\ prevList' = list
    /\ UNCHANGED << snapshot, url, stories, list, pending, requests, response,
                    urlChanges, prev, thrown, removed, dismissed, resubmitted >>

NextFilter == \E value \in FilterTerms : handleSearch(value)

SpecFilter == InitFilter /\ [][NextFilter]_vars

-----------------------------------------------------------------------------
(* Properties.                                                             *)

\* no entry of seq has objectID id
NoEntryWith(seq, id) == \A i \in DOMAIN seq : seq[i].objectID # id

\* number of positions of seq holding story
Occurrences(seq, story) == Cardinality({ i \in DOMAIN seq : seq[i] = story })

\* no two entries of seq share an objectID
NoDuplicateID(seq) ==
    \A i, j \in DOMAIN seq : seq[i].objectID = seq[j].objectID => i = j

\* sub is seq with some entries left out, the others in their order
RECURSIVE IsSubSeq(_, _)
IsSubSeq(sub, seq) ==
    IF sub = <<>> THEN TRUE
    ELSE IF seq = <<>> THEN FALSE
    ELSE IF Head(sub) = Head(seq) THEN IsSubSeq(Tail(sub), Tail(seq))
    ELSE IsSubSeq(sub, Tail(seq))

HandledLatest ==
    { "STORIES_FETCH_INIT", "STORIES_FETCH_SUCCESS", "STORIES_FETCH_FAILURE",
      "REMOVE_STORY" }

HandledArray == { "SET_STORIES", "REMOVE_STORY" }

\* C1: in the latest reducer, STORIES_FETCH_SUCCESS(payload) applied to any
\* state returns isLoading = false, isError = false and data = payload: the
\* payload replaces the prior data wholesale.
C1_FetchSuccessReplaces ==
    (snapshot = "latest" /\ last.type = "STORIES_FETCH_SUCCESS") =>
        /\ ~thrown
        /\ stories = [data |-> last.payload, isLoading |-> FALSE,
                      isError |-> FALSE]

\* The reducer was applied to a loading, failed state holding two stories,
\* with a one-story payload that repeats one of them.
C1_Witness ==
    /\ snapshot = "latest" /\ last.type = "STORIES_FETCH_SUCCESS"
    /\ prev.isLoading /\ prev.isError
    /\ Len(prev.data) = 2 /\ Len(last.payload) = 1
    /\ last.payload[1] = prev.data[1]

\* C2: after REMOVE_STORY(item) the list holds no entry with item.objectID,
\* also when several entries carried it; removing objectID 0 from the seed
\* list leaves exactly the objectID 1 story. Checked for the latest reducer,
\* the array reducer and the useState handler.
C2_RemoveLeavesNoMatch ==
    /\ (snapshot = "latest" /\ last.type = "REMOVE_STORY") =>
          /\ ~thrown
          /\ NoEntryWith(stories.data, last.payload.objectID)
          /\ (prev.data = initialStories /\ last.payload.objectID = 0) =>
                stories.data = << initialStories[2] >>
    /\ (snapshot = "reducer" /\ last.type = "REMOVE_STORY") =>
          /\ ~thrown
          /\ NoEntryWith(list, last.payload.objectID)
          /\ (prevList = initialStories /\ last.payload.objectID = 0) =>
                list = << initialStories[2] >>
    /\ (snapshot = "useState" /\ last.type = "handleRemoveStory") =>
          /\ NoEntryWith(list, last.payload.objectID)
          /\ (prevList = initialStories /\ last.payload.objectID = 0) =>
                list = << initialStories[2] >>

\* Two different entries carried the removed objectID and both are gone.
C2_Witness ==
    /\ snapshot = "latest" /\ last.type = "REMOVE_STORY"
    /\ Len(prev.data) = 2 /\ prev.data[1] # prev.data[2]
    /\ prev.data[1].objectID = last.payload.objectID
    /\ prev.data[2].objectID = last.payload.objectID
    /\ stories.data = <<>>

\* C3 as stated: once a REMOVE_STORY has been applied, stories.data never
\* holds two entries with the same objectID, whatever payloads arrive.
C3_Original == removed => NoDuplicateID(stories.data)

\* C3 amended: once a REMOVE_STORY has been applied, stories.data holds two
\* entries with the same objectID only if the hits list of the most recently
\* applied STORIES_FETCH_SUCCESS held two entries with that objectID (the data
\* is that list with entries left out).
C3_NoDuplicateUnlessFetched ==
    removed =>
        /\ IsSubSeq(stories.data, response.data.hits)
        /\ \A i, j \in DOMAIN stories.data :
              (i # j /\ stories.data[i].objectID = stories.data[j].objectID) =>
                  \E k, l \in DOMAIN response.data.hits :
                      /\ k # l
                      /\ response.data.hits[k].objectID = stories.data[i].objectID
                      /\ response.data.hits[l].objectID = stories.data[i].objectID

\* After a removal a second response, free of duplicates, has been applied
\* and one of its two stories dismissed.
C3_Witness ==
    /\ removed /\ last.type = "REMOVE_STORY"
    /\ response.id = 2
    /\ Len(response.data.hits) = 2 /\ NoDuplicateID(response.data.hits)
    /\ Len(stories.data) = 1

\* C4: an action whose type the reducer does not handle makes it throw; it
\* returns no state. Both reducers (latest: four cases, array: two cases).
C4_UnknownActionThrows ==
    /\ (snapshot = "latest" /\ last.type \notin HandledLatest \cup {"none"}) =>
          thrown
    /\ (snapshot = "reducer" /\ last.type \notin HandledArray \cup {"none"}) =>
          thrown

\* The latest reducer was handed the array reducer's SET_STORIES.
C4_Witness ==
    snapshot = "latest" /\ last.type = "SET_STORIES" /\ thrown

\* C5: on mount and on every change of url the fetch dispatches
\* STORIES_FETCH_INIT, then issues one GET for that url, and for that GET
\* dispatches one terminal action: STORIES_FETCH_SUCCESS with the response's
\* hits when it resolves, STORIES_FETCH_FAILURE when it rejects; never a
\* terminal action before the INIT, never both.
C5_FetchProtocol ==
    /\ \A i \in DOMAIN requests :
          /\ requests[i].outcome = "pending" =>
                requests[i].log = << "STORIES_FETCH_INIT", "GET" >>
          /\ requests[i].outcome = "resolved" =>
                requests[i].log =
                    << "STORIES_FETCH_INIT", "GET", "STORIES_FETCH_SUCCESS" >>
          /\ requests[i].outcome = "rejected" =>
                requests[i].log =
                    << "STORIES_FETCH_INIT", "GET", "STORIES_FETCH_FAILURE" >>
    \* the newest GET is the one for the current url, unless its effect is
    \* still to run; no url is requested twice in a row
    /\ "fetch" \notin pending =>
          GetsIssued >= 1 /\ requests[GetsIssued].url = url
    /\ "fetch" \in pending =>
          GetsIssued = 0 \/ requests[GetsIssued].url # url
    /\ \A i \in DOMAIN requests :
          i < GetsIssued => requests[i].url # requests[i + 1].url
    \* what the reducer was last handed comes from a request's settlement
    /\ last.type = "STORIES_FETCH_SUCCESS" =>
          /\ response.id \in DOMAIN requests
          /\ requests[response.id].outcome = "resolved"
          /\ last.payload = response.data.hits
    /\ last.type = "STORIES_FETCH_FAILURE" =>
          \E i \in DOMAIN requests : requests[i].outcome = "rejected"
    /\ last.type = "STORIES_FETCH_INIT" => GetsIssued >= 1

\* The mount's GET was rejected, the GET of a url change resolved with hits.
C5_Witness ==
    /\ GetsIssued = 2 /\ urlChanges = 1
    /\ requests[1].outcome = "rejected" /\ requests[2].outcome = "resolved"
    /\ last.type = "STORIES_FETCH_SUCCESS" /\ last.payload # <<>>

\* C6: a GET in flight is neither cancelled by a change of url nor dropped
\* when it settles: it leaves the in-flight set only by its terminal action
\* being dispatched, and a resolved one overwrites stories.data with its hits
\* whatever the current url is.
C6_StaleResponseApplied ==
    [][ \A i \in InFlight :
          /\ url' # url => i \in InFlight'
          /\ i \notin InFlight' =>
                /\ requests'[i].outcome \in {"resolved", "rejected"}
                /\ requests'[i].outcome = "resolved" =>
                      /\ last'.type = "STORIES_FETCH_SUCCESS"
                      /\ response'.id = i
                      /\ stories'.data = response'.data.hits
                /\ requests'[i].outcome = "rejected" =>
                      /\ last'.type = "STORIES_FETCH_FAILURE"
                      /\ stories'.isError
      ]_vars

\* Both requests have resolved, the one for the earlier url last: the data
\* shown is the response for a url that is not the current query url.
C6_Witness ==
    /\ GetsIssued = 2 /\ InFlight = {} /\ pending = {}
    /\ requests[1].outcome = "resolved" /\ requests[2].outcome = "resolved"
    /\ requests[2].url = url /\ requests[1].url # url
    /\ response.id = 1
    /\ last.type = "STORIES_FETCH_SUCCESS"
    /\ stories.data = response.data.hits /\ stories.data # <<>>

\* C7: in the latest reducer, STORIES_FETCH_FAILURE applied to any state sets
\* isLoading = false, isError = true and leaves data as it was.
C7_FetchFailureKeepsData ==
    (snapshot = "latest" /\ last.type = "STORIES_FETCH_FAILURE") =>
        /\ ~thrown
        /\ stories = [data |-> prev.data, isLoading |-> FALSE,
                      isError |-> TRUE]

\* A failure arrived while stories were held and a fetch was loading.
C7_Witness ==
    /\ snapshot = "latest" /\ last.type = "STORIES_FETCH_FAILURE"
    /\ prev.isLoading /\ ~prev.isError /\ Len(prev.data) = 2
    /\ stories.data = prev.data

\* C8: in the latest reducer, STORIES_FETCH_INIT applied to any state sets
\* isLoading = true, isError = false and leaves data as it was.
C8_FetchInitKeepsData ==
    (snapshot = "latest" /\ last.type = "STORIES_FETCH_INIT") =>
        /\ ~thrown
        /\ stories = [data |-> prev.data, isLoading |-> TRUE,
                      isError |-> FALSE]

\* A fetch started from a failed state that held stories.
C8_Witness ==
    /\ snapshot = "latest" /\ last.type = "STORIES_FETCH_INIT"
    /\ ~prev.isLoading /\ prev.isError /\ Len(prev.data) = 2
    /\ ~stories.isError

\* C9: REMOVE_STORY(item) keeps isLoading and isError, and keeps every entry
\* whose objectID differs from item.objectID, unmodified and in the same
\* relative order; with no matching entry data is unchanged.
C9_RemoveFrame ==
    (snapshot = "latest" /\ last.type = "REMOVE_STORY") =>
        /\ ~thrown
        /\ stories.isLoading = prev.isLoading
        /\ stories.isError = prev.isError
        /\ IsSubSeq(stories.data, prev.data)
        /\ \A story \in StoryUniverse :
              story.objectID # last.payload.objectID =>
                  Occurrences(stories.data, story) =
                      Occurrences(prev.data, story)
        /\ NoEntryWith(prev.data, last.payload.objectID) =>
              stories.data = prev.data

\* The middle one of three entries was removed from a loading, failed state:
\* the two others remain in their order.
C9_Witness ==
    /\ snapshot = "latest" /\ last.type = "REMOVE_STORY"
    /\ prev.isLoading /\ prev.isError
    /\ Len(prev.data) = 3 /\ prev.data[1] # prev.data[3]
    /\ stories.data = << prev.data[1], prev.data[3] >>

\* C10: no retry. Every GET issued is the mount's or that of one change of
\* url: the GETs issued, plus the one whose effect is scheduled and not yet
\* run, number 1 + the changes of url; a failure issues none.
C10_OneGetPerUrlChange ==
    GetsIssued + (IF "fetch" \in pending THEN 1 ELSE 0) = 1 + urlChanges

\* The mount's GET failed and the only other GET is that of the url change.
C10_Witness ==
    /\ GetsIssued = 2 /\ urlChanges = 1 /\ pending = {}
    /\ requests[1].outcome = "rejected"
    /\ requests[1].url # requests[2].url

\* C11: the query url changes only in a submit, which sets it to the endpoint
\* followed by the current search term; a keystroke changes the search term
\* and leaves url and stories as they were and starts no fetch; after mount
\* the fetch effect is scheduled by a submit only, and a GET is issued only by
\* a scheduled fetch effect.
C11_UrlChangesOnSubmitOnly ==
    [][ /\ url' # url =>
              /\ handleSearchSubmit
              /\ url' = API_ENDPOINT \o searchTerm
        /\ searchTerm' # searchTerm =>
              /\ url' = url
              /\ stories' = stories
              /\ requests' = requests
              /\ "fetch" \notin pending'
        /\ ("fetch" \in pending' /\ "fetch" \notin pending) =>
              handleSearchSubmit
        /\ Len(requests') # Len(requests) =>
              /\ "fetch" \in pending
              /\ "fetch" \notin pending'
      ]_vars

\* The user typed "Redux" over "React" after the mount's fetch and did not
\* submit: the term is stored, the url is the mount's, one GET was issued.
C11_Witness ==
    /\ searchTerm = "Redux" /\ url = API_ENDPOINT \o "React"
    /\ storage["search"] = << "Redux" >>
    /\ pending = {} /\ GetsIssued = 1 /\ urlChanges = 0

\* C13: once the scheduled storage effect has run, after mount and after every
\* keystroke, the item stored under "search" is the current search term (the
\* default "React" when the key was absent at mount); no other key is written.
C13_StorageHoldsSearchTerm ==
    /\ "storage" \notin pending => storage["search"] = << searchTerm >>
    /\ \A key \in Keys \ {"search"} : storage[key] = <<>>

\* The user cleared the input after the mount's fetch for "React" and the
\* storage effect has run: the key holds the empty string.
C13_Witness ==
    /\ searchTerm = "" /\ storage["search"] = << "" >>
    /\ pending = {} /\ url = API_ENDPOINT \o "React" /\ urlChanges = 0

\* C12: write-then-read round trip through the key "search". When the page is
\* loaded again with no storage effect outstanding, so that the key holds the
\* search term s, the new mount initialises the search term to s, for every
\* s, the empty string of a cleared input included.
C12_Original ==
    [][ (Reload /\ storage["search"] # <<>>) =>
            searchTerm' = storage["search"][1] ]_vars

\* C16: whenever at least one GET is in flight (issued, neither resolved nor
\* rejected), stories.isLoading is true, also when the url changed while an
\* earlier request was in flight.
C16_Original == InFlight # {} => stories.isLoading

\* C17: a story dismissed with REMOVE_STORY is absent from stories.data as
\* long as url has not changed since: no event other than a submit that
\* changes url brings an entry with its objectID back, not even the late
\* response to a request for an earlier url.
C17_Original ==
    \A id \in dismissed : NoEntryWith(stories.data, id)

\* C18 as stated: every click on the enabled Submit button starts a fetch,
\* also when the term submitted is the one of the current url.
C18_Original ==
    [][ handleSearchSubmit => "fetch" \in pending' ]_vars

\* C18 amended: a click on the enabled Submit button starts a fetch
\* (STORIES_FETCH_INIT, then one GET for the new url) exactly when the
\* endpoint followed by the search term differs from the current url; a click
\* that submits the term of the current url changes nothing and issues no
\* GET, after a STORIES_FETCH_FAILURE as at any other time.
C18_SubmitFetchesOnlyNewUrl ==
    [][ /\ handleSearchSubmit =>
              /\ "fetch" \in pending' <=> API_ENDPOINT \o searchTerm # url
              /\ url' = url =>
                    /\ pending' = {}
                    /\ stories' = stories
                    /\ requests' = requests
        /\ ("fetch" \in pending' /\ "fetch" \notin pending) => url' # url
        /\ (resubmitted' /\ ~resubmitted) =>
              /\ url' = url
              /\ pending' = {}
              /\ requests' = requests
        /\ pending = {"fetch"} =>
              /\ GetsIssued' = GetsIssued + 1
              /\ requests'[GetsIssued'].url = url
              /\ requests'[GetsIssued'].log = << "STORIES_FETCH_INIT", "GET" >>
              /\ last'.type = "STORIES_FETCH_INIT"
              /\ stories'.isLoading
      ]_vars

\* The mount's GET was rejected, Submit was clicked with the term of the
\* current url, and that GET is still the only one issued.
C18_Witness ==
    /\ resubmitted /\ urlChanges = 0 /\ pending = {}
    /\ url = API_ENDPOINT \o searchTerm
    /\ GetsIssued = 1 /\ requests[1].outcome = "rejected"
    /\ stories.isError /\ ~stories.isLoading

\* C19: from the initial state {data: [], isLoading: false, isError: false},
\* after any sequence of the four reducer actions, isLoading and isError are
\* not both true.
C19_NotLoadingAndError ==
    snapshot = "latest" => ~(stories.isLoading /\ stories.isError)

\* A fetch was started from a failed state that held stories: the error flag
\* was cleared as the loading flag was set.
C19_Witness ==
    /\ snapshot = "latest" /\ last.type = "STORIES_FETCH_INIT"
    /\ prev.isError /\ ~prev.isLoading /\ prev.data # <<>>
    /\ stories.isLoading /\ ~stories.isError

SameLetter(a, b) ==
    a = b \/ << a, b >> \in UpperLower \/ << b, a >> \in UpperLower

\* term occurs in title as a contiguous run of characters, letter-case aside
ContainsIgnoringCase(title, term) ==
    LET s == chars(title)
        t == chars(term)
    IN \E k \in 0..(Len(s) - Len(t)) :
           \A j \in 1..Len(t) : SameLetter(s[k + j], t[j])

\* the k-th smallest member of a set of positions
KthOf(positions, k) ==
    CHOOSE i \in positions : Cardinality({ j \in positions : j <= i }) = k

\* C15: the filtered list is the stories whose title contains the search term
\* as a contiguous substring, letter-case aside, each once and in the order
\* of the list; the empty term selects every story; the seed list filtered
\* with "Redux" is the Redux entry alone; filtering leaves the list as it was.
C15_FilterIsMatchingSubsequence ==
    snapshot \in FilterSnapshots =>
        LET selected ==
                { i \in DOMAIN list :
                    ContainsIgnoringCase(list[i].title, searchTerm) }
        IN /\ Len(searchedStories) = Cardinality(selected)
           /\ \A k \in DOMAIN searchedStories :
                 searchedStories[k] = list[KthOf(selected, k)]
           /\ searchTerm = "" => searchedStories = list
           /\ (list = initialStories /\ searchTerm = "Redux") =>
                 searchedStories = << initialStories[2] >>
           /\ list = prevList

\* The user typed a term in mixed case that occurs inside the second title
\* only: the first story is left out, the second kept, the list untouched.
C15_Witness ==
    /\ snapshot = "useState" /\ last.type = "handleSearch"
    /\ searchTerm = "ßE"
    /\ Len(list) = 2
    /\ list[1].title = "React" /\ list[2].title = "Straße"
    /\ searchedStories = << list[2] >>

\* no request is in flight, no fetch is about to start, nothing is loading
Quiescent ==
    InFlight = {} /\ "fetch" \notin pending /\ ~stories.isLoading

\* C21: when every GET issued settles and the user stops submitting, the app
\* comes to rest with no request in flight and isLoading false, for good: the
\* loading indicator does not stay shown forever. Once at rest, isLoading
\* stays false in every step, and a fetch is scheduled again only by a
\* change of url.
C21_LoadingEnds ==
    /\ <>[]Quiescent
    /\ [][ Quiescent =>
              /\ ~stories'.isLoading
              /\ "fetch" \in pending' => url' # url ]_vars

\* Two fetches were started; the first resolved, the second was rejected
\* last: nothing is in flight and the loading flag is down.
C21_Witness ==
    /\ Quiescent /\ pending = {} /\ GetsIssued = 2
    /\ requests[1].outcome = "resolved" /\ requests[2].outcome = "rejected"
    /\ last.type = "STORIES_FETCH_FAILURE" /\ stories.isError

====
